---- MODULE Spec2Model ----
(***************************************************************************)
(* Model of src/app.py: the category CRUD handlers with their transaction  *)
(* cascades, add_transaction, and the two aggregation reports              *)
(* (monthly_report, get_most_problematic_category) over the Firestore      *)
(* collections "categories", "transactions" and "settings".                *)
(*                                                                         *)
(* A string is a sequence of code points, so that strip(), title() and     *)
(* sorted() are computed as Python computes them.                          *)
(***************************************************************************)
EXTENDS Integers, Sequences, FiniteSets, Bags, TLC

VARIABLES db, categories, transactions, settings, req, resp

vars == <<db, categories, transactions, settings, req, resp>>

----------------------------------------------------------------------------
(* Bounds of the model *)

\* most documents of the "transactions" collection
MaxTx == 2
\* most documents of the "categories" collection
MaxCats == 1
\* most PUT/DELETE category requests in flight at once
MaxReq == 1

Users == {"u1", "u2"}

----------------------------------------------------------------------------
(* Strings *)

Transporte == <<84, 114, 97, 110, 115, 112, 111, 114, 116, 101>>
Comida == <<67, 111, 109, 105, 100, 97>>
Entretenimiento == <<69, 110, 116, 114, 101, 116, 101, 110, 105, 109, 105, 101, 110, 116, 111>>
Servicios == <<83, 101, 114, 118, 105, 99, 105, 111, 115>>
Renta == <<82, 101, 110, 116, 97>>
Otros == <<79, 116, 114, 111, 115>>
MiCasa == <<77, 105, 32, 67, 97, 115, 97>>

\* request inputs: " comida ", "mi CASA", "otros", "  "
RawComida == <<32, 99, 111, 109, 105, 100, 97, 32>>
RawMiCasa == <<109, 105, 32, 67, 65, 83, 65>>
RawOtros == <<111, 116, 114, 111, 115>>
RawBlank == <<32, 32>>

RawNames == {RawComida, RawMiCasa, RawOtros, RawBlank}

DEFAULT_CATEGORIES == <<Transporte, Comida, Entretenimiento, Servicios, Renta>>

Range(s) == {s[i] : i \in DOMAIN s}

\* set(DEFAULT_CATEGORIES)
DefaultNames == Range(DEFAULT_CATEGORIES)

IsSpace(c) == c \in {9, 10, 11, 12, 13, 32}
IsUpper(c) == c \in 65..90
IsLower(c) == c \in 97..122
IsCased(c) == IsUpper(c) \/ IsLower(c)
ToUpper(c) == IF IsLower(c) THEN c - 32 ELSE c
ToLower(c) == IF IsUpper(c) THEN c + 32 ELSE c

\* str.strip(): drop the whitespace at both ends
Strip(s) ==
    LET keep == {i \in DOMAIN s : ~IsSpace(s[i])}
    IN  IF keep = {} THEN <<>>
        ELSE LET lo == CHOOSE i \in keep : \A j \in keep : i <= j
                 hi == CHOOSE i \in keep : \A j \in keep : j <= i
             IN  SubSeq(s, lo, hi)

\* str.title(): a cased character is upper-cased when the character before it
\* is not cased, and lower-cased when it is
Title(s) ==
    [i \in DOMAIN s |->
        IF i > 1 /\ IsCased(s[i - 1]) THEN ToLower(s[i]) ELSE ToUpper(s[i])]

\* raw.strip().title()
Normalize(s) == Title(Strip(s))

\* Normalize over the request inputs, computed once
Norm == [raw \in RawNames |-> Normalize(raw)]

\* s < t for Python strings: by code point at the first difference, a proper
\* prefix first
StrLess(s, t) ==
    IF s # <<>> /\ t # <<>> /\ s[1] # t[1] THEN s[1] < t[1]
    ELSE LET diff == {i \in DOMAIN s \cap DOMAIN t : s[i] # t[i]}
         IN  IF diff = {} THEN Len(s) < Len(t)
             ELSE LET k == CHOOSE i \in diff : \A j \in diff : i <= j
                  IN  s[k] < t[k]

\* sorted(list(S))
RECURSIVE Sorted(_)
Sorted(S) ==
    IF S = {} THEN <<>>
    ELSE LET m == CHOOSE x \in S : \A y \in S : x = y \/ StrLess(x, y)
         IN  <<m>> \o Sorted(S \ {m})

\* list.remove(x): drop the first occurrence
Remove(s, x) ==
    LET i == CHOOSE k \in DOMAIN s : s[k] = x /\ \A j \in 1..(k - 1) : s[j] # x
    IN  SubSeq(s, 1, i - 1) \o SubSeq(s, i + 1, Len(s))

----------------------------------------------------------------------------
(* The store *)

CategoryDoc(u, n) == [userId |-> u, name |-> n]

\* names of the user's documents in "categories"
CustomNames(u) == {d.name : d \in {e \in BagToSet(categories) : e.userId = u}}

\* TxWith without the filter on userId
TxWithAnyUser(u, n) ==
    {i \in DOMAIN transactions : transactions[i].category = n}

\* ids of the user's transactions carrying the category: the query
\* where("userId", "==", user_id).where("category", "==", name)
TxWith(u, n) ==
    {i \in DOMAIN transactions :
        transactions[i].userId = u /\ transactions[i].category = n}

\* get_user_categories starting from an empty set instead of the defaults
get_user_categories_no_defaults(u) ==
    IF ~db THEN DEFAULT_CATEGORIES
    ELSE LET result == Sorted({n \in CustomNames(u) : n # <<>>})
         IN  IF Otros \notin Range(result) THEN Append(result, Otros)
             ELSE Append(Remove(result, Otros), Otros)

\* _get_user_categories(user_id)
get_user_categories(u) ==
    IF ~db THEN DEFAULT_CATEGORIES
    ELSE LET all_categories == DefaultNames
                                 \cup {n \in CustomNames(u) : n # <<>>}
             result == Sorted(all_categories)
         IN  IF Otros \notin Range(result) THEN Append(result, Otros)
             ELSE Append(Remove(result, Otros), Otros)

----------------------------------------------------------------------------
(* Requests and responses *)

NoName == <<>>
NoBody == <<>>

\* a PUT or DELETE category request between its store operations, with the
\* handler's locals (old_name or category_to_delete, new_name, deleted_count,
\* the streamed transactions_to_update)
InFlight(pc, op, u, old, new, deleted, matched) ==
    [pc |-> pc, op |-> op, userId |-> u, old |-> old, new |-> new,
     deleted |-> deleted, matched |-> matched]

\* what the store does during a request: it answers every call, or the
\* category query of the handler raises, or batch.commit() raises
Faults == {"none", "query", "commit"}

\* the response of the request that has just returned: the handler, the status
\* code, the counts of the cascade and the JSON body of a read
Response(op, code, count, deleted, body) ==
    [op |-> op, code |-> code, count |-> count, deleted |-> deleted, body |-> body]

NoResponse == Response("none", 0, 0, 0, NoBody)

\* a document of "settings": whether it exists, and its fields
NoDoc == [exists |-> FALSE, fields |-> {}]
GoalDoc(goal) == [exists |-> TRUE, fields |-> {<<"monthlyGoal", goal>>}]

Init ==
    /\ db \in BOOLEAN
    /\ categories = EmptyBag
    /\ transactions = <<>>
    /\ settings = [u \in Users |-> NoDoc]
    /\ req = EmptyBag
    /\ resp = NoResponse

----------------------------------------------------------------------------
(* Store operations of the category handlers *)

\* doc.reference.update({"name": new_name}) on the first matching document
RenameRecord(u, old_name, new_name) ==
    IF BagIn(CategoryDoc(u, old_name), categories)
    THEN (categories (-) SetToBag({CategoryDoc(u, old_name)}))
             (+) SetToBag({CategoryDoc(u, new_name)})
    ELSE categories

\* IsProtected that protects nothing
IsProtectedNever(category_to_delete) == FALSE

\* category_to_delete in DEFAULT_CATEGORIES
IsProtected(category_to_delete) == category_to_delete \in DefaultNames

\* doc.reference.delete() on the first matching document
DeleteRecord(u, category_to_delete) ==
    categories (-) SetToBag({CategoryDoc(u, category_to_delete)})

\* the smallest id of a non-empty set of ids
FirstOf(ids) == CHOOSE i \in ids : \A j \in ids : i <= j

\* BatchCommit that writes one transaction only
BatchCommitFirstOnly(matched, new, ok) ==
    IF ok /\ matched # {}
    THEN [transactions EXCEPT ![FirstOf(matched)].category = new]
    ELSE transactions

\* BatchCommit as document-by-document updates: a failure leaves the first
\* update behind
BatchCommitPartial(matched, new, ok) ==
    IF ok
    THEN [i \in DOMAIN transactions |->
            IF i \in matched
            THEN [transactions[i] EXCEPT !.category = new]
            ELSE transactions[i]]
    ELSE IF matched # {}
    THEN [transactions EXCEPT ![FirstOf(matched)].category = new]
    ELSE transactions

\* BatchCommit that rewrites the matched documents instead of updating their
\* category field: the amount is lost
BatchCommitOverwrite(matched, new, ok) ==
    IF ok
    THEN [i \in DOMAIN transactions |->
            IF i \in matched
            THEN [transactions[i] EXCEPT !.category = new, !.amount = 0]
            ELSE transactions[i]]
    ELSE transactions

\* batch.update(...) for every streamed transaction, then batch.commit():
\* every update of the batch is applied, or none is
BatchCommit(matched, new, ok) ==
    IF ok
    THEN [i \in DOMAIN transactions |->
            IF i \in matched
            THEN [transactions[i] EXCEPT !.category = new]
            ELSE transactions[i]]
    ELSE transactions

----------------------------------------------------------------------------
(* Category handlers, one request at a time *)

\* GET /api/categories/<user_id>
get_categories(u) ==
    /\ resp' = Response("list", 200, 0, 0, get_user_categories(u))
    /\ UNCHANGED <<db, categories, transactions, settings, req>>

\* POST /api/categories/<user_id>
create_category(u, raw, fault) ==
    LET new_category_name == Norm[raw]
        answer(code) == Response("create", code, 0, 0, NoBody)
    IN  /\ UNCHANGED <<db, transactions, settings, req>>
        /\ IF ~db THEN
               resp' = answer(500) /\ UNCHANGED categories
           ELSE IF new_category_name = <<>> THEN
               resp' = answer(400) /\ UNCHANGED categories
           ELSE IF fault = "query" THEN
               resp' = answer(500) /\ UNCHANGED categories
           ELSE IF new_category_name \in Range(get_user_categories(u)) THEN
               resp' = answer(409) /\ UNCHANGED categories
           ELSE
               /\ BagCardinality(categories) < MaxCats
               /\ categories' =
                      categories (+) SetToBag({CategoryDoc(u, new_category_name)})
               /\ resp' = answer(201)

\* PUT /api/categories/<user_id>
update_category(u, rawOld, rawNew, fault) ==
    LET old_name == Norm[rawOld]
        new_name == Norm[rawNew]
        found == BagIn(CategoryDoc(u, old_name), categories)
        matched == TxWith(u, old_name)
        answer(code, count) == Response("rename", code, count, 0, NoBody)
    IN  /\ UNCHANGED <<db, settings, req>>
        /\ IF ~db THEN
               resp' = answer(500, 0) /\ UNCHANGED <<categories, transactions>>
           ELSE IF old_name = <<>> \/ new_name = <<>> THEN
               resp' = answer(400, 0) /\ UNCHANGED <<categories, transactions>>
           ELSE IF ~found /\ old_name \notin DefaultNames THEN
               resp' = answer(404, 0) /\ UNCHANGED <<categories, transactions>>
           ELSE
               /\ categories' = RenameRecord(u, old_name, new_name)
               /\ transactions' = BatchCommit(matched, new_name, fault # "commit")
               /\ resp' = IF fault = "commit" THEN answer(500, 0)
                          ELSE answer(200, Cardinality(matched))

\* DELETE /api/categories/<user_id>
delete_category(u, raw, fault) ==
    LET category_to_delete == Norm[raw]
        deleted_count ==
            IF BagIn(CategoryDoc(u, category_to_delete), categories) THEN 1 ELSE 0
        matched == TxWith(u, category_to_delete)
        answer(code, count, deleted) == Response("delete", code, count, deleted, NoBody)
    IN  /\ UNCHANGED <<db, settings, req>>
        /\ IF ~db THEN
               resp' = answer(500, 0, 0) /\ UNCHANGED <<categories, transactions>>
           ELSE IF category_to_delete = <<>> THEN
               resp' = answer(400, 0, 0) /\ UNCHANGED <<categories, transactions>>
           ELSE IF IsProtected(category_to_delete) THEN
               resp' = answer(403, 0, 0) /\ UNCHANGED <<categories, transactions>>
           ELSE IF deleted_count = 0 THEN
               resp' = answer(404, 0, 0) /\ UNCHANGED <<categories, transactions>>
           ELSE
               /\ categories' = DeleteRecord(u, category_to_delete)
               /\ transactions' = BatchCommit(matched, Otros, fault # "commit")
               /\ resp' = IF fault = "commit" THEN answer(500, 0, 0)
                          ELSE answer(200, Cardinality(matched), deleted_count)

----------------------------------------------------------------------------
(* Transactions *)

TxFields == {"type", "amount", "category", "description", "date"}

Date(y, m, d) == [y |-> y, m |-> m, d |-> d]

TxBody(fields, type, amount, category, date) ==
    [fields |-> fields, type |-> type, amount |-> amount, category |-> category,
     description |-> "d", date |-> date]

\* TransactionDoc that stores the category as sent
TransactionDocRaw(u, data) ==
    [userId |-> u, type |-> data.type, amount |-> data.amount,
     category |-> data.category, description |-> data.description,
     date |-> data.date]

\* transaction_doc
TransactionDoc(u, data) ==
    [userId |-> u, type |-> data.type, amount |-> data.amount,
     category |-> Norm[data.category], description |-> data.description,
     date |-> data.date]

\* POST /api/transactions/<user_id>
add_transaction(u, data) ==
    LET answer(code) == Response("add", code, 0, 0, NoBody)
    IN  /\ UNCHANGED <<db, categories, settings, req>>
        /\ IF ~db THEN
               resp' = answer(500) /\ UNCHANGED transactions
           ELSE IF ~(TxFields \subseteq data.fields) THEN
               resp' = answer(400) /\ UNCHANGED transactions
           ELSE
               /\ Len(transactions) < MaxTx
               /\ transactions' = Append(transactions, TransactionDoc(u, data))
               /\ resp' = answer(201)

\* balance of get_balance over a sequence of transaction documents: the
\* incomes of the user minus the expenses of the user
RECURSIVE BalanceOf(_, _)
BalanceOf(txs, u) ==
    IF txs = <<>> THEN 0
    ELSE LET data == txs[Len(txs)]
             rest == BalanceOf(SubSeq(txs, 1, Len(txs) - 1), u)
         IN  IF data.userId # u THEN rest
             ELSE IF data.type = "income" THEN rest + data.amount
             ELSE IF data.type = "expense" THEN rest - data.amount
             ELSE rest

\* current_balance of GET /api/balance/<user_id>
get_balance(u) == BalanceOf(transactions, u)

\* request bodies of the category specification
TxBodies ==
    {TxBody(TxFields, "expense", 100, RawComida, Date(2025, 1, 10)),
     TxBody(TxFields, "expense", 100, RawMiCasa, Date(2025, 1, 10)),
     TxBody(TxFields \ {"amount"}, "expense", 100, RawMiCasa, Date(2025, 1, 10))}

----------------------------------------------------------------------------
(* The category specification: requests served one at a time *)

Next ==
    \/ \E u \in Users : get_categories(u)
    \/ \E u \in Users, raw \in RawNames, fault \in {"none", "query"} :
          create_category(u, raw, fault)
    \/ \E u \in Users, rawOld \in RawNames, rawNew \in RawNames,
          fault \in {"none", "commit"} :
          update_category(u, rawOld, rawNew, fault)
    \/ \E u \in Users, raw \in RawNames, fault \in {"none", "commit"} :
          delete_category(u, raw, fault)
    \/ \E u \in Users, data \in TxBodies : add_transaction(u, data)

Spec == Init /\ [][Next]_vars

----------------------------------------------------------------------------
(* Reports *)

RECURSIVE SumAmounts(_)
\* the sum of the amounts of the transactions with the ids
SumAmounts(ids) ==
    IF ids = {} THEN 0
    ELSE LET i == CHOOSE j \in ids : TRUE
         IN  transactions[i].amount + SumAmounts(ids \ {i})

RECURSIVE SeqSum(_)
\* sum(trend)
SeqSum(s) == IF s = <<>> THEN 0 ELSE Head(s) + SeqSum(Tail(s))

Digit(n) == 48 + (n % 10)

\* date_obj.strftime("%Y-%m")
MonthKey(date) ==
    <<Digit(date.y \div 1000), Digit(date.y \div 100), Digit(date.y \div 10),
      Digit(date.y), 45, Digit(date.m \div 10), Digit(date.m)>>

\* the transactions of the user that monthly_report does not skip
Reported(u) ==
    {i \in DOMAIN transactions :
        /\ transactions[i].userId = u
        /\ transactions[i].type \in {"expense", "income"}}

\* monthly_data[category]: the ids behind each month key of the category
MonthIds(u, category, month_key) ==
    {i \in Reported(u) :
        /\ Normalize(transactions[i].category) = category
        /\ MonthKey(transactions[i].date) = month_key}

MonthKeys(u, category) ==
    {MonthKey(transactions[i].date) :
        i \in {j \in Reported(u) : Normalize(transactions[j].category) = category}}

\* Trend without the leading zero of a one-month category
TrendNoPad(u, category) ==
    LET sorted_months == Sorted(MonthKeys(u, category))
    IN  [j \in DOMAIN sorted_months |->
            SumAmounts(MonthIds(u, category, sorted_months[j]))]

\* monthly_trend of a category
Trend(u, category) ==
    LET sorted_months == Sorted(MonthKeys(u, category))
        trend == [j \in DOMAIN sorted_months |->
                     SumAmounts(MonthIds(u, category, sorted_months[j]))]
    IN  IF Len(trend) = 1 THEN <<0, trend[1]>> ELSE trend

\* GET /api/reports/monthly; types[c] is the type of the transaction of the
\* category that the stream yields last, and the response list is kept as a
\* set since its order is the stream's
monthly_report(u, types) ==
    LET cats == {Normalize(transactions[i].category) : i \in Reported(u)}
        entry(c) ==
            [category_name |-> c, total_amount |-> SeqSum(Trend(u, c)),
             monthly_trend |-> Trend(u, c), type |-> types[c]]
    IN  /\ UNCHANGED <<db, categories, transactions, settings, req>>
        /\ IF ~db THEN resp' = Response("monthly", 500, 0, 0, NoBody)
           ELSE /\ DOMAIN types = cats
                /\ \A c \in cats :
                      \E i \in Reported(u) :
                          /\ Normalize(transactions[i].category) = c
                          /\ transactions[i].type = types[c]
                /\ resp' = Response("monthly", 200, 0, 0, {entry(c) : c \in cats})

\* None, and the "Error" of the except branch
NoneValue == <<0>>
Error == <<69, 114, 114, 111, 114>>

\* the result dict of get_most_problematic_category
Problematic(category, current_spend, goal_amount, exceeds_goal) ==
    [category |-> category, current_spend |-> current_spend,
     goal_amount |-> goal_amount, exceeds_goal |-> exceeds_goal]

\* date >= start_of_month, the first day of the month of now
OnOrAfterStartOfMonth(date, now) ==
    \/ date.y > now.y
    \/ date.y = now.y /\ date.m > now.m
    \/ date.y = now.y /\ date.m = now.m /\ date.d >= 1

\* the expenses that the query of get_most_problematic_category streams
StreamedExpenses(u, now) ==
    {i \in DOMAIN transactions :
        /\ transactions[i].userId = u
        /\ transactions[i].type = "expense"
        /\ OnOrAfterStartOfMonth(transactions[i].date, now)}

\* category_totals[category]
CategoryTotal(u, now, category) ==
    SumAmounts({i \in StreamedExpenses(u, now) :
                   Normalize(transactions[i].category) = category})

\* float(goal_amount_str)
GoalAmount(u) ==
    LET stored == {f \in settings[u].fields : f[1] = "monthlyGoal"}
    IN  IF settings[u].exists /\ stored # {}
        THEN (CHOOSE f \in stored : TRUE)[2]
        ELSE 500

\* get_most_problematic_category(user_id), behind
\* GET /api/reports/problematic_category/<user_id>; max() takes the first
\* category of the largest total in the order of the stream
get_most_problematic_category(u, now, fault) ==
    LET cats == {Normalize(transactions[i].category) : i \in StreamedExpenses(u, now)}
        largest == {c \in cats :
                       \A d \in cats : CategoryTotal(u, now, d) <= CategoryTotal(u, now, c)}
        answer(body) == Response("problematic", 200, 0, 0, body)
    IN  /\ UNCHANGED <<db, categories, transactions, settings, req>>
        /\ IF ~db THEN resp' = answer(Problematic(NoneValue, 0, 0, FALSE))
           ELSE IF fault = "query" THEN resp' = answer(Problematic(Error, 0, 0, FALSE))
           ELSE IF cats = {} THEN
               resp' = answer(Problematic(Otros, 0, GoalAmount(u), 0 > GoalAmount(u)))
           ELSE
               \E most_problematic_category \in largest :
                   LET max_spend == CategoryTotal(u, now, most_problematic_category)
                   IN  resp' = answer(Problematic(most_problematic_category, max_spend,
                                                  GoalAmount(u), max_spend > GoalAmount(u)))

\* request bodies and clock readings of the report specification
December == Date(2024, 12, 15)
January == Date(2025, 1, 10)
February == Date(2025, 2, 10)

ReportBodies ==
    {TxBody(TxFields, "expense", 300, RawComida, January),
     TxBody(TxFields, "expense", 100, RawComida, December),
     TxBody(TxFields, "expense", 300, RawMiCasa, January),
     TxBody(TxFields, "expense", 600, RawMiCasa, February),
     TxBody(TxFields, "income", 600, RawComida, January),
     TxBody(TxFields, "transfer", 300, RawMiCasa, January)}

Nows == {Date(2025, 1, 20)}

ReportNames == {Comida, MiCasa}

TypeChoices ==
    UNION {[cats -> {"expense", "income"}] : cats \in SUBSET ReportNames}

InitReports ==
    /\ db \in BOOLEAN
    /\ categories = EmptyBag
    /\ transactions = <<>>
    /\ settings \in [Users -> {NoDoc, GoalDoc(300)}]
    /\ req = EmptyBag
    /\ resp = NoResponse

NextReports ==
    \/ \E u \in Users, data \in ReportBodies : add_transaction(u, data)
    \/ \E u \in Users, types \in TypeChoices : monthly_report(u, types)
    \/ \E u \in Users, now \in Nows, fault \in {"none", "query"} :
          get_most_problematic_category(u, now, fault)

SpecReports == InitReports /\ [][NextReports]_vars

----------------------------------------------------------------------------
(* Category handlers, store operation by store operation: other requests are
   served between the write to "categories", the query of "transactions" and
   batch.commit() *)

\* PUT /api/categories/<user_id> up to the write to "categories"
update_category_record(u, rawOld, rawNew) ==
    LET old_name == Norm[rawOld]
        new_name == Norm[rawNew]
        found == BagIn(CategoryDoc(u, old_name), categories)
        answer(code) == Response("rename", code, 0, 0, NoBody)
    IN  /\ UNCHANGED <<db, transactions, settings>>
        /\ IF ~db THEN
               resp' = answer(500) /\ UNCHANGED <<categories, req>>
           ELSE IF old_name = <<>> \/ new_name = <<>> THEN
               resp' = answer(400) /\ UNCHANGED <<categories, req>>
           ELSE IF ~found /\ old_name \notin DefaultNames THEN
               resp' = answer(404) /\ UNCHANGED <<categories, req>>
           ELSE
               /\ BagCardinality(req) < MaxReq
               /\ categories' = RenameRecord(u, old_name, new_name)
               /\ req' = req (+) SetToBag({InFlight("recorded", "rename", u, old_name,
                                                    new_name, 0, {})})
               /\ resp' = NoResponse

\* DELETE /api/categories/<user_id> up to the write to "categories"
delete_category_record(u, raw) ==
    LET category_to_delete == Norm[raw]
        deleted_count ==
            IF BagIn(CategoryDoc(u, category_to_delete), categories) THEN 1 ELSE 0
        answer(code) == Response("delete", code, 0, 0, NoBody)
    IN  /\ UNCHANGED <<db, transactions, settings>>
        /\ IF ~db THEN
               resp' = answer(500) /\ UNCHANGED <<categories, req>>
           ELSE IF category_to_delete = <<>> THEN
               resp' = answer(400) /\ UNCHANGED <<categories, req>>
           ELSE IF IsProtected(category_to_delete) THEN
               resp' = answer(403) /\ UNCHANGED <<categories, req>>
           ELSE IF deleted_count = 0 THEN
               resp' = answer(404) /\ UNCHANGED <<categories, req>>
           ELSE
               /\ BagCardinality(req) < MaxReq
               /\ categories' = DeleteRecord(u, category_to_delete)
               /\ req' = req (+) SetToBag({InFlight("recorded", "delete", u,
                                                    category_to_delete, Otros,
                                                    deleted_count, {})})
               /\ resp' = NoResponse

\* the query of "transactions" of a PUT or DELETE in flight
cascade_query(r) ==
    /\ r.pc = "recorded"
    /\ req' = (req (-) SetToBag({r}))
                 (+) SetToBag({[r EXCEPT !.pc = "queried",
                                         !.matched = TxWith(r.userId, r.old)]})
    /\ resp' = NoResponse
    /\ UNCHANGED <<db, categories, transactions, settings>>

\* batch.commit() of a PUT or DELETE in flight, and its response
cascade_commit(r, fault) ==
    /\ r.pc = "queried"
    /\ transactions' = BatchCommit(r.matched, r.new, fault # "commit")
    /\ req' = req (-) SetToBag({r})
    /\ resp' = IF fault = "commit" THEN Response(r.op, 500, 0, 0, NoBody)
               ELSE Response(r.op, 200, Cardinality(r.matched), r.deleted, NoBody)
    /\ UNCHANGED <<db, categories, settings>>

\* request inputs of the interleaved specification: the requests of one user
ConcurrentUsers == {"u1"}
ConcurrentNames == {RawComida, RawMiCasa}
ConcurrentBodies == {data \in TxBodies : TxFields \subseteq data.fields}

NextConcurrent ==
    \/ \E u \in ConcurrentUsers : get_categories(u)
    \/ \E u \in ConcurrentUsers, raw \in ConcurrentNames :
          create_category(u, raw, "none")
    \/ \E u \in ConcurrentUsers, rawOld \in ConcurrentNames,
          rawNew \in ConcurrentNames :
          update_category_record(u, rawOld, rawNew)
    \/ \E u \in ConcurrentUsers, raw \in ConcurrentNames :
          delete_category_record(u, raw)
    \/ \E r \in BagToSet(req) : cascade_query(r)
    \/ \E r \in BagToSet(req), fault \in {"none", "commit"} : cascade_commit(r, fault)
    \/ \E u \in ConcurrentUsers, data \in ConcurrentBodies : add_transaction(u, data)

SpecConcurrent == Init /\ [][NextConcurrent]_vars

----------------------------------------------------------------------------
(* Claims on the category specification *)

StoredNames(u) == {n \in CustomNames(u) : n # <<>>}

\* the name is a default category, the sentinel or a custom category of the user
Listed(u, n) == n \in DefaultNames \cup {Otros} \cup StoredNames(u)

\* C1: no two category documents of a user have the same name, and no category
\* document of a user carries the name of a default category
CategoryNamesUnique ==
    \A d \in BagToSet(categories) :
        /\ CopiesIn(d, categories) = 1
        /\ d.name \notin DefaultNames

\* C2: every list that GET categories returns ends with "Otros" and holds no
\* name twice
ListEndsWithOtros ==
    (resp.op = "list" /\ resp.code = 200) =>
        /\ Len(resp.body) > 0
        /\ resp.body[Len(resp.body)] = Otros
        /\ \A i, j \in DOMAIN resp.body : resp.body[i] = resp.body[j] => i = j

\* the user's transactions carrying the category before the step
Had(u, n) ==
    {i \in DOMAIN transactions :
        transactions[i].userId = u /\ transactions[i].category = n}

\* C3: a rename that answers 200 gives the new name to every transaction of the
\* user that carried the old name, leaves none of the user's transactions with
\* the old name when the names differ, and counts the transactions that carried it
RenameReassignsAll ==
    [][(resp'.op = "rename" /\ resp'.code = 200) =>
        \A u \in Users, rawOld \in RawNames, rawNew \in RawNames :
            update_category(u, rawOld, rawNew, "none") =>
                LET old == Norm[rawOld]
                    new == Norm[rawNew]
                IN  /\ Len(transactions') = Len(transactions)
                    /\ \A i \in Had(u, old) : transactions'[i].category = new
                    /\ old # new =>
                          \A i \in DOMAIN transactions' :
                              ~(/\ transactions'[i].userId = u
                                /\ transactions'[i].category = old)
                    /\ resp'.count = Cardinality(Had(u, old))]_vars

RenameReassignsAllWitness ==
    /\ resp.op = "rename" /\ resp.code = 200 /\ resp.count = 2
    /\ \A i \in DOMAIN transactions : transactions[i].category = MiCasa

\* C4: a delete that answers 200 removes exactly one category document, gives
\* "Otros" to every transaction of the user that carried the name, and counts them
DeleteReassignsAll ==
    [][(resp'.op = "delete" /\ resp'.code = 200) =>
        \A u \in Users, raw \in RawNames :
            delete_category(u, raw, "none") =>
                LET name == Norm[raw]
                IN  /\ Len(transactions') = Len(transactions)
                    /\ \A i \in Had(u, name) : transactions'[i].category = Otros
                    /\ BagIn(CategoryDoc(u, name), categories)
                    /\ BagCardinality(categories') = BagCardinality(categories) - 1
                    /\ CopiesIn(CategoryDoc(u, name), categories')
                          = CopiesIn(CategoryDoc(u, name), categories) - 1
                    /\ resp'.deleted = 1
                    /\ resp'.count = Cardinality(Had(u, name))]_vars

DeleteReassignsAllWitness ==
    /\ resp.op = "delete" /\ resp.code = 200 /\ resp.count = 2 /\ resp.deleted = 1
    /\ \A i \in DOMAIN transactions : transactions[i].category = Otros

\* C5 as stated: a delete of a default category name always answers 403 and
\* changes neither collection
DeleteDefaultForbiddenAlways ==
    [][resp'.op = "delete" =>
        \A u \in Users, raw \in RawNames, fault \in {"none", "commit"} :
            (Norm[raw] \in DefaultNames
                /\ delete_category(u, raw, fault)) =>
                    /\ resp'.code = 403
                    /\ UNCHANGED <<categories, transactions>>]_vars

\* C5 amended: a delete of a default category name answers 403 when the
\* Firestore client exists and 500 when it does not, and changes neither collection
DeleteDefaultForbidden ==
    [][resp'.op = "delete" =>
        \A u \in Users, raw \in RawNames, fault \in {"none", "commit"} :
            (Norm[raw] \in DefaultNames
                /\ delete_category(u, raw, fault)) =>
                    /\ resp'.code = IF db THEN 403 ELSE 500
                    /\ UNCHANGED <<categories, transactions>>]_vars

DeleteDefaultForbiddenWitness ==
    /\ resp.op = "delete" /\ resp.code = 403
    /\ BagIn(CategoryDoc("u1", Comida), categories)

\* C6 as stated: a create whose normalized name is in the user's category list
\* always answers 409 and adds no category document
CreateExistingConflictsAlways ==
    [][resp'.op = "create" =>
        \A u \in Users, raw \in RawNames, fault \in {"none", "query"} :
            (Listed(u, Norm[raw]) /\ create_category(u, raw, fault)) =>
                    /\ resp'.code = 409
                    /\ UNCHANGED categories]_vars

\* C6 amended: a create whose normalized name is in the user's category list
\* answers 409 when the store answers the category query, 500 when the
\* Firestore client does not exist or the query raises, and adds no category
\* document in either case
CreateExistingConflicts ==
    [][resp'.op = "create" =>
        \A u \in Users, raw \in RawNames, fault \in {"none", "query"} :
            (Listed(u, Norm[raw]) /\ create_category(u, raw, fault)) =>
                    /\ resp'.code = IF db /\ fault # "query" THEN 409 ELSE 500
                    /\ UNCHANGED categories]_vars

CreateExistingConflictsWitness ==
    /\ resp.op = "create" /\ resp.code = 409
    /\ \E u \in Users : StoredNames(u) # {}

\* C8: the category of every transaction and the name of every category
\* document is a fixed point of Normalize
StoredNamesNormalized ==
    /\ \A i \in DOMAIN transactions :
          Normalize(transactions[i].category) = transactions[i].category
    /\ \A d \in BagToSet(categories) : Normalize(d.name) = d.name

StoredNamesNormalizedWitness ==
    /\ \E i \in DOMAIN transactions : transactions[i].category = Otros
    /\ \E i \in DOMAIN transactions : transactions[i].category = MiCasa
    /\ BagIn(CategoryDoc("u1", MiCasa), categories)

\* C11: no step removes a transaction or changes the userId, type, amount,
\* description or date of one; a step that changes the category of a transaction
\* is a rename or a delete that answers 200; and no category request changes
\* the balance of a user
TransactionsFrame ==
    [][/\ Len(transactions') >= Len(transactions)
       /\ \A i \in DOMAIN transactions :
             /\ transactions'[i].userId = transactions[i].userId
             /\ transactions'[i].type = transactions[i].type
             /\ transactions'[i].amount = transactions[i].amount
             /\ transactions'[i].description = transactions[i].description
             /\ transactions'[i].date = transactions[i].date
             /\ transactions'[i].category # transactions[i].category =>
                    resp'.op \in {"rename", "delete"} /\ resp'.code = 200
       /\ resp'.op \in {"list", "create", "rename", "delete"} =>
             \A u \in Users :
                 BalanceOf(transactions', u) = get_balance(u)]_vars

TransactionsFrameWitness ==
    /\ resp.op = "delete" /\ resp.code = 200 /\ resp.count = 1
    /\ Len(transactions) = 2
    /\ transactions[1].userId = "u1" /\ transactions[1].category = Otros
    /\ transactions[2].userId = "u1" /\ transactions[2].category = Comida
    /\ get_balance("u1") = 0 - 200

\* C13: after a delete that answers 200 the deleted name is not in the list of
\* the user's categories
DeletedNameNotListed ==
    [][(resp'.op = "delete" /\ resp'.code = 200) =>
        \A u \in Users, raw \in RawNames :
            delete_category(u, raw, "none") =>
                Norm[raw] \notin Range(get_user_categories(u))']_vars

----------------------------------------------------------------------------
(* Claims on the interleaved specification *)

\* the transactions that the step changes
Changed == {i \in DOMAIN transactions : transactions'[i] # transactions[i]}

\* C7: a step that changes transactions is the commit of a cascade in flight and
\* gives every transaction that the cascade matched its new category, and a
\* cascade that answers 500 changes no transaction
CascadeAllOrNothing ==
    [][/\ Changed # {} =>
            \E r \in BagToSet(req) :
                /\ r.pc = "queried"
                /\ Changed \subseteq r.matched
                /\ \A i \in r.matched : transactions'[i].category = r.new
       /\ (resp'.op \in {"rename", "delete"} /\ resp'.code = 500) =>
            Changed = {}]_vars

CascadeAllOrNothingWitness ==
    /\ db /\ resp.op = "delete" /\ resp.code = 500
    /\ Len(transactions) = 2
    /\ \A i \in DOMAIN transactions : transactions[i].category = MiCasa
    /\ categories = EmptyBag

\* C12: when a rename or delete that wrote to the category document of a
\* custom name returns, whatever its status, and no other request is in
\* flight, none of the transactions that its query of "transactions" streamed
\* carries the old name any more
CascadeWindowCloses ==
    [][\A r \in BagToSet(req) :
          (/\ r.pc = "queried"
           /\ r.old \notin DefaultNames
           /\ r.old # r.new
           /\ req = SetToBag({r})
           /\ req' = EmptyBag) =>
              \A i \in r.matched : transactions'[i].category # r.old]_vars

----------------------------------------------------------------------------
(* Claims on the report specification *)

\* the user's income and expense transactions of the category
EntryIds(u, c) ==
    {i \in DOMAIN transactions :
        /\ transactions[i].userId = u
        /\ transactions[i].type \in {"expense", "income"}
        /\ Normalize(transactions[i].category) = c}

\* C9: every entry of the monthly report has a trend of at least two points,
\* which is <<0, x>> for a category with the one monthly sum x and otherwise the
\* monthly sums of the category in ascending order of the month key, and a
\* total_amount that is the sum of the amounts of the category's transactions
MonthlyTrendCorrect ==
    [][(resp'.op = "monthly" /\ resp'.code = 200) =>
        \A u \in Users :
            (\E types \in TypeChoices : monthly_report(u, types)) =>
                \A e \in resp'.body :
                    LET ids == EntryIds(u, e.category_name)
                        keys == {MonthKey(transactions[i].date) : i \in ids}
                        sumOf(k) ==
                            SumAmounts({i \in ids : MonthKey(transactions[i].date) = k})
                        place(k) == 1 + Cardinality({k2 \in keys : StrLess(k2, k)})
                        trend == e.monthly_trend
                    IN  /\ ids # {}
                        /\ Len(trend) >= 2
                        /\ e.total_amount = SumAmounts(ids)
                        /\ IF Cardinality(keys) = 1
                           THEN trend = <<0, SumAmounts(ids)>>
                           ELSE /\ Len(trend) = Cardinality(keys)
                                /\ \A k \in keys : trend[place(k)] = sumOf(k)]_vars

MonthlyTrendCorrectWitness ==
    /\ resp.op = "monthly" /\ resp.code = 200
    /\ \E e \in resp.body :
          e.monthly_trend = <<100, 300>> /\ e.total_amount = 400

\* C10: the problematic category is the category of the largest sum of the
\* user's expenses of the current month, current_spend is that sum and
\* exceeds_goal says that it is greater than the user's goal (500 when none is
\* stored); with no expense in the current month the answer is "Otros", 0, FALSE
ProblematicIsCurrentMonthMax ==
    [][(resp'.op = "problematic" /\ resp'.body.category \notin {NoneValue, Error}) =>
        \A u \in Users, now \in Nows :
            get_most_problematic_category(u, now, "none") =>
                LET inMonth ==
                        {i \in DOMAIN transactions :
                            /\ transactions[i].userId = u
                            /\ transactions[i].type = "expense"
                            /\ transactions[i].date.y = now.y
                            /\ transactions[i].date.m = now.m}
                    cats == {Normalize(transactions[i].category) : i \in inMonth}
                    spend(c) ==
                        SumAmounts({i \in inMonth :
                                       Normalize(transactions[i].category) = c})
                    body == resp'.body
                IN  IF cats = {}
                    THEN /\ body.category = Otros
                         /\ body.current_spend = 0
                         /\ ~body.exceeds_goal
                    ELSE /\ body.category \in cats
                         /\ \A c \in cats : spend(c) <= spend(body.category)
                         /\ body.current_spend = spend(body.category)
                         /\ body.exceeds_goal <=> (spend(body.category) > GoalAmount(u))]_vars

====
